---- MODULE Spec2Model ----
(***************************************************************************)
(* LSB steganography container of toolbox.subcommands.stego: the bit       *)
(* helpers (toolbox.binary), the Cursor that maps logical byte offsets to  *)
(* (sample index, bit offset) pairs, the 14-byte header codec and the      *)
(* Container that owns the flat sample array.                              *)
(*                                                                         *)
(* Conventions.  A bytes value is a sequence of integers in 0..255.  The   *)
(* sample array is a sequence of integers in 0..255; the code's 0-based    *)
(* index i is element i+1 of the sequence.  An Optional[int] is <<>> for   *)
(* None and <<n>> for the integer n.  An operator that models a method     *)
(* returns a record holding the fields the method may change, its result   *)
(* and err, the exception that left it ("none" when it returned).          *)
(***************************************************************************)
EXTENDS Integers, Sequences, FiniteSets, TLC

Min(a, b) == IF a <= b THEN a ELSE b

Max(a, b) == IF a >= b THEN a ELSE b

\* TLC evaluates an operator's argument wherever the operator's body names it;
\* Bind evaluates x once and hands its value to F.
Bind(x, F(_)) == CHOOSE y \in {F(v) : v \in {x}} : TRUE

None == <<>>

Some(n) == <<n>>

(***************************************************************************)
(* Python's & and | on non-negative integers.                              *)
(***************************************************************************)
RECURSIVE BitAnd(_, _)
BitAnd(a, b) ==
    IF a = 0 \/ b = 0 THEN 0
    ELSE (a % 2) * (b % 2) + 2 * BitAnd(a \div 2, b \div 2)

RECURSIVE BitOr(_, _)
BitOr(a, b) ==
    IF a = 0 THEN b
    ELSE IF b = 0 THEN a
    ELSE Max(a % 2, b % 2) + 2 * BitOr(a \div 2, b \div 2)

(***************************************************************************)
(* toolbox.binary                                                          *)
(***************************************************************************)
\* max(1, 2**n_bits) - 1; 2**n_bits is a float below 1 for a negative n_bits.
get_mask(n_bits) == Max(1, IF n_bits < 0 THEN 0 ELSE 2^n_bits) - 1

\* A split that clamps the shift to [0, 7] instead of [0, 8].
split_clamped_to_seven(n, shift) ==
    LET s == Min(7, Max(0, shift))
    IN  <<n \div 2^s, BitAnd(n, get_mask(s))>>

split(n, shift) ==
    LET s == Min(8, Max(0, shift))
    IN  <<n \div 2^s, BitAnd(n, get_mask(s))>>

(***************************************************************************)
(* Header and Cursor                                                       *)
(***************************************************************************)
\* b"=)"
MAGIC_BYTES == <<61, 41>>

Header(magic_bytes, count, checksum, reserved) ==
    [magic_bytes |-> magic_bytes, count |-> count,
     checksum |-> checksum, reserved |-> reserved]

is_valid(h) == h.magic_bytes = MAGIC_BYTES

\* Cursor.__init__; operations keeps the kinds of the recorded operations.
Cursor(w) == [lsb |-> w, pos |-> 0, idx |-> 0, operations |-> {}]

lsb_mask(c) == get_mask(c.lsb)

msb_mask(c) == get_mask(8 - c.lsb) * 2^c.lsb

_get_bits(c) == c.lsb - ((c.pos * 8) % c.lsb)

\* A _seek that takes the bits left from the byte offset, not the bit offset.
_seek_bits_of_bytes(c, pos) ==
    IF pos = None THEN <<c.pos, c.idx, _get_bits(c)>>
    ELSE <<pos[1], (pos[1] * 8) \div c.lsb, c.lsb - (pos[1] % c.lsb)>>

_seek(c, pos) ==
    IF pos = None THEN <<c.pos, c.idx, _get_bits(c)>>
    ELSE <<pos[1], (pos[1] * 8) \div c.lsb, c.lsb - ((pos[1] * 8) % c.lsb)>>

\* Cursor.seek: the cursor after the call; _seek gives the returned Pos.
Cursor_seek(c, pos) ==
    Bind(_seek(c, pos), LAMBDA pos_ : [c EXCEPT !.pos = pos_[1], !.idx = pos_[2]])

get_msb_mask(c, n_bits) ==
    get_mask(Min(c.lsb, Max(0, n_bits))) * 2^(c.lsb - Min(c.lsb, Max(0, n_bits)))

(***************************************************************************)
(* Cursor.iter_bits: the list of (value, mask) tuples the generator yields *)
(* for data at an initial shift.  s holds the generator's locals: shift,   *)
(* q, first_shift, and out, the tuples yielded so far.                     *)
(***************************************************************************)
RECURSIVE iter_bits_while(_, _)
iter_bits_while(c, s) ==
    IF s.shift >= c.lsb
    THEN Bind([shift |-> s.shift - c.lsb,
               q |-> split(s.q, s.shift - c.lsb)[2],
               first_shift |-> s.first_shift - c.lsb,
               out |-> Append(s.out, <<split(s.q, s.shift - c.lsb)[1],
                                       get_msb_mask(c, s.first_shift)>>)],
              LAMBDA s1 : iter_bits_while(c, s1))
    ELSE s

RECURSIVE iter_bits_for(_, _, _, _)
iter_bits_for(c, data, i, s) ==
    IF i > Len(data)
    THEN IF s.shift # 0
         THEN Append(s.out, <<s.q * 2^(c.lsb - s.shift), get_mask(c.lsb - s.shift)>>)
         ELSE s.out
    ELSE Bind(iter_bits_while(c, [s EXCEPT !.shift = s.shift + 8,
                                           !.q = s.q * 256 + BitAnd(data[i], 255)]),
              LAMBDA s1 : iter_bits_for(c, data, i + 1, s1))

\* An iter_bits that starts its queue empty whatever the initial shift.
iter_bits_ignoring_shift(c, data, shift) ==
    iter_bits_for(c, data, 1,
                  [shift |-> 0, q |-> 0, first_shift |-> 0, out |-> <<>>])

iter_bits(c, data, shift) ==
    iter_bits_for(c, data, 1,
                  [shift |-> shift, q |-> 0, first_shift |-> shift, out |-> <<>>])

(***************************************************************************)
(* Cursor.iter_bytes / Cursor.read.  q is a uint16: the shift drops what   *)
(* leaves 16 bits, and np.uint8(...) keeps the low 8 bits.  An index at or *)
(* past len(array) raises IndexError where the code subscripts the array;  *)
(* idx and pos then stay as the generator left them and the final seek and *)
(* the record of the operation are skipped.  s holds the cursor and the    *)
(* generator's locals: bits, q, count, and res, the bytes yielded so far.  *)
(***************************************************************************)
iter_bytes_step(array, s) ==
    Bind([s EXCEPT !.cursor.idx = s.cursor.idx + 1,
                   !.bits = s.bits + s.cursor.lsb,
                   !.q = BitOr((s.q * 2^s.cursor.lsb) % 65536,
                               BitAnd(array[s.cursor.idx + 2], lsb_mask(s.cursor)))],
         LAMBDA t :
            IF t.bits >= 8
            THEN [t EXCEPT !.res = Append(t.res, (t.q \div 2^(t.bits - 8)) % 256),
                           !.count = t.count - 1,
                           !.cursor.pos = t.cursor.pos + 1,
                           !.bits = t.bits - 8]
            ELSE t)

RECURSIVE iter_bytes_while(_, _)
iter_bytes_while(array, s) ==
    IF s.count > 0
    THEN IF s.cursor.idx + 1 >= Len(array)
         THEN [cursor |-> [s.cursor EXCEPT !.idx = s.cursor.idx + 1],
               res |-> s.res, err |-> "IndexError"]
         ELSE Bind(iter_bytes_step(array, s), LAMBDA s1 : iter_bytes_while(array, s1))
    ELSE [cursor |-> Cursor_seek(s.cursor, Some(s.cursor.pos)),
          res |-> s.res, err |-> "none"]

iter_bytes(c, array, count) ==
    IF c.idx >= Len(array)
    THEN [cursor |-> c, res |-> <<>>, err |-> "IndexError"]
    ELSE iter_bytes_while(array,
             [cursor |-> c, bits |-> _get_bits(c),
              q |-> BitAnd(array[c.idx + 1], get_mask(_get_bits(c))),
              count |-> count, res |-> <<>>])

\* record_op: the operation is appended only when the wrapped call returns.
record_op(c, kind) == [c EXCEPT !.operations = c.operations \cup {kind}]

\* Cursor.read: [cursor, res, err]
Cursor_read(c, array, count) ==
    Bind(iter_bytes(c, array, count), LAMBDA r :
        IF r.err = "none" THEN [r EXCEPT !.cursor = record_op(r.cursor, "read")]
        ELSE r)

(***************************************************************************)
(* Cursor.write: [cursor, array, err].  The slice array[idx : idx+len(arr)]*)
(* is cut at the end of the array; the in-place & runs over it first, and  *)
(* the in-place | raises ValueError when arr[:, 0] does not broadcast to   *)
(* the slice (the lengths differ and arr holds more than one row), leaving *)
(* the masked samples behind.                                              *)
(***************************************************************************)
\* A mask_slice that clears the whole sample instead of its low bits.
mask_slice_whole_sample(c, array, n) ==
    [i \in 1..Len(array) |->
        IF i - 1 >= c.idx /\ i - 1 < c.idx + n THEN 0 ELSE array[i]]

\* array[idx : idx + n] &= bit_mask
mask_slice(c, array, n) ==
    [i \in 1..Len(array) |->
        IF i - 1 >= c.idx /\ i - 1 < c.idx + n
        THEN BitAnd(array[i], BitAnd(255, msb_mask(c)))
        ELSE array[i]]

\* array[idx : idx + len(arr)] |= arr[:, 0]
or_slice(c, array, arr) ==
    [i \in 1..Len(array) |->
        IF i - 1 >= c.idx /\ i - 1 < c.idx + Len(arr)
        THEN BitOr(array[i], arr[IF Len(arr) = 1 THEN 1 ELSE i - c.idx][1])
        ELSE array[i]]

Cursor_write(c, array, data) ==
    Bind(iter_bits(c, data, c.lsb - _get_bits(c)), LAMBDA arr :
        IF Len(arr) <= 0
        THEN [cursor |-> record_op(c, "write"), array |-> array, err |-> "none"]
        ELSE Bind(mask_slice(c, array, Len(arr)), LAMBDA masked :
            IF Max(0, Min(c.idx + Len(arr), Len(array)) - c.idx) # Len(arr)
               /\ Len(arr) # 1
            THEN [cursor |-> c, array |-> masked, err |-> "ValueError"]
            ELSE [cursor |-> record_op(Cursor_seek(c, Some(c.pos + Len(data))), "write"),
                  array |-> or_slice(c, masked, arr), err |-> "none"]))

(***************************************************************************)
(* int.from_bytes(b, "big") and n.to_bytes(4, "big")                       *)
(***************************************************************************)
RECURSIVE from_bytes(_)
from_bytes(b) ==
    IF b = <<>> THEN 0
    ELSE 256 * from_bytes(SubSeq(b, 1, Len(b) - 1)) + b[Len(b)]

to_bytes4(n) == [i \in 1..4 |-> (n \div 256^(4 - i)) % 256]

(***************************************************************************)
(* Cursor.read_header: [header, header_end, err].  A read that raises      *)
(* leaves the construction of the Container.                               *)
(***************************************************************************)
read_header(w, array) ==
    LET Raised(r) == [header |-> Header(<<>>, 0, <<>>, <<>>), header_end |-> 0,
                      err |-> r.err]
    IN  Bind(Cursor_read(Cursor(w), array, 2), LAMBDA r1 :
          IF r1.err # "none" THEN Raised(r1) ELSE
        Bind(Cursor_read(r1.cursor, array, 4), LAMBDA r2 :
          IF r2.err # "none" THEN Raised(r2) ELSE
        Bind(Cursor_read(r2.cursor, array, 4), LAMBDA r3 :
          IF r3.err # "none" THEN Raised(r3) ELSE
        Bind(Cursor_read(r3.cursor, array, 4), LAMBDA r4 :
          IF r4.err # "none" THEN Raised(r4) ELSE
          [header |-> Header(r1.res, from_bytes(r2.res), r3.res, r4.res),
           header_end |-> r4.cursor.pos, err |-> "none"]))))

\* A write_header that writes the length on eight bytes instead of four.
write_header_wide_count(c, header, array) ==
    LET Raised(w) == [cursor |-> c, array |-> w.array, err |-> w.err]
    IN  Bind(Cursor_write(Cursor(c.lsb), array, SubSeq(MAGIC_BYTES, 1, 2)), LAMBDA w1 :
          IF w1.err # "none" THEN Raised(w1) ELSE
        Bind(Cursor_write(w1.cursor, w1.array, <<0, 0, 0, 0>> \o to_bytes4(header.count)),
             LAMBDA w2 :
          IF w2.err # "none" THEN Raised(w2) ELSE
        Bind(Cursor_write(w2.cursor, w2.array, header.checksum), LAMBDA w3 :
          IF w3.err # "none" THEN Raised(w3) ELSE
        Bind(Cursor_write(w3.cursor, w3.array, header.reserved), LAMBDA w4 :
          IF w4.err # "none" THEN Raised(w4) ELSE
          [cursor |-> [c EXCEPT !.operations = c.operations \cup w4.cursor.operations],
           array |-> w4.array, err |-> "none"]))))

(***************************************************************************)
(* Cursor.write_header: [cursor, array, err]; cursor is self, which takes  *)
(* the operations of the local cursor when all four writes returned.       *)
(***************************************************************************)
write_header(c, header, array) ==
    LET Raised(w) == [cursor |-> c, array |-> w.array, err |-> w.err]
    IN  Bind(Cursor_write(Cursor(c.lsb), array, SubSeq(MAGIC_BYTES, 1, 2)), LAMBDA w1 :
          IF w1.err # "none" THEN Raised(w1) ELSE
        Bind(Cursor_write(w1.cursor, w1.array, to_bytes4(header.count)), LAMBDA w2 :
          IF w2.err # "none" THEN Raised(w2) ELSE
        Bind(Cursor_write(w2.cursor, w2.array, header.checksum), LAMBDA w3 :
          IF w3.err # "none" THEN Raised(w3) ELSE
        Bind(Cursor_write(w3.cursor, w3.array, header.reserved), LAMBDA w4 :
          IF w4.err # "none" THEN Raised(w4) ELSE
          [cursor |-> [c EXCEPT !.operations = c.operations \cup w4.cursor.operations],
           array |-> w4.array, err |-> "none"]))))

(***************************************************************************)
(* hashlib.sha256(data).digest(): 32 bytes.  The digest of b"" is the real *)
(* one.  The digest of any other data stands for SHA-256 by a function of  *)
(* the bytes whose first four bytes are the length and the three sums of   *)
(* the bytes at positions 1, 2, 3 modulo 3: deterministic, and injective   *)
(* on data of up to three bytes, so that two different short payloads      *)
(* never share a checksum.                                                 *)
(***************************************************************************)
EMPTY_DIGEST ==
    <<227, 176, 196, 66, 152, 252, 28, 20, 154, 251, 244, 200, 153, 111, 185, 36,
      39, 174, 65, 228, 100, 155, 147, 76, 164, 149, 153, 27, 120, 82, 184, 85>>

RECURSIVE fold_sum(_, _, _)
fold_sum(b, j, i) ==
    IF i > Len(b) THEN 0
    ELSE ((IF i % 3 = j THEN b[i] ELSE 0) + fold_sum(b, j, i + 1)) % 256

sha256_digest(b) ==
    IF b = <<>> THEN EMPTY_DIGEST
    ELSE Bind(<<Len(b) % 256, fold_sum(b, 1, 1), fold_sum(b, 2, 1), fold_sum(b, 0, 1)>>,
              LAMBDA h :
                [i \in 1..32 |-> IF i <= 4 THEN h[i] ELSE (h[((i - 1) % 4) + 1] + i) % 256])

(***************************************************************************)
(* Container.  k is the object: [lsb, data, header, header_end, cursor].   *)
(* A method's model returns [k, res, err].                                 *)
(***************************************************************************)
Ret(k, res, err) == [k |-> k, res |-> res, err |-> err]

\* Container.__init__ on the decoded samples; err is the IndexError of a
\* header that does not fit the array.
Container(array, w) ==
    Bind(read_header(w, array), LAMBDA h :
        Ret([lsb |-> w, data |-> array, header |-> h.header,
             header_end |-> h.header_end,
             cursor |-> Cursor_seek(Cursor(w), Some(h.header_end))],
            <<>>, h.err))

\* A get_capacity that counts samples instead of bytes.
get_capacity_in_samples(k) == Len(k.data) - k.header_end

get_capacity(k) == ((Len(k.data) * k.lsb) \div 8) - k.header_end

\* Container.seek
Container_seek(k, pos) ==
    [k EXCEPT !.cursor = Cursor_seek(k.cursor,
                                     IF pos = None THEN None
                                     ELSE Some(pos[1] + k.header_end))]

\* Container.read; count is an Optional[int]
Container_read(k, count) ==
    IF ~is_valid(k.header) THEN Ret(k, <<>>, "AssertionError")
    ELSE LET max_pos   == k.header.count + k.header_end
             max_count == max_pos - k.cursor.pos
             n == IF count # None
                  THEN (IF max_count < count[1] THEN max_count ELSE count[1])
                  ELSE max_count
         IN  Bind(Cursor_read(k.cursor, k.data, n), LAMBDA r :
                Ret([k EXCEPT !.cursor = r.cursor], r.res, r.err))

read_from(k, count, pos) ==
    Bind(Container_seek(k, Some(pos)), LAMBDA k1 :
    Bind(Container_read(k1, Some(count)), LAMBDA r :
        IF r.err # "none" THEN r
        ELSE Ret(Container_seek(r.k, Some(k.cursor.pos)), r.res, "none")))

\* A Container.write that adds len(data) to the length instead of setting it.
Container_write_appending(k, data) ==
    IF ~is_valid(k.header) THEN Ret(k, <<>>, "AssertionError")
    ELSE Bind(Cursor_write(k.cursor, k.data, data), LAMBDA w :
            IF w.err # "none"
            THEN Ret([k EXCEPT !.cursor = w.cursor, !.data = w.array], <<>>, w.err)
            ELSE Ret([k EXCEPT !.cursor = w.cursor, !.data = w.array,
                               !.header.count = k.header.count + Len(data)],
                     <<>>, "none"))

\* Container.write
Container_write(k, data) ==
    IF ~is_valid(k.header) THEN Ret(k, <<>>, "AssertionError")
    ELSE Bind(Cursor_write(k.cursor, k.data, data), LAMBDA w :
            IF w.err # "none"
            THEN Ret([k EXCEPT !.cursor = w.cursor, !.data = w.array], <<>>, w.err)
            ELSE Ret([k EXCEPT !.cursor = w.cursor, !.data = w.array,
                               !.header.count = Len(data)], <<>>, "none"))

write_from(k, data, pos) ==
    Bind(Container_seek(k, Some(pos)), LAMBDA k1 :
    Bind(Container_write(k1, data), LAMBDA r :
        IF r.err # "none" THEN r
        ELSE Ret(Container_seek(r.k, Some(k.cursor.pos)), <<>>, "none")))

\* Container.calc_checksum: res is the first four bytes of the digest.
calc_checksum(k) ==
    Bind(read_from(k, k.header.count, 0), LAMBDA r :
        IF r.err # "none" THEN r
        ELSE Ret(r.k, SubSeq(sha256_digest(r.res), 1, 4), "none"))

_validate(k, header_only) ==
    IF ~is_valid(k.header) THEN Ret(k, <<>>, "AssertionError")
    ELSE IF header_only THEN Ret(k, <<>>, "none")
    ELSE Bind(calc_checksum(k), LAMBDA c :
            IF c.err # "none" THEN c
            ELSE IF c.res = k.header.checksum THEN Ret(c.k, <<>>, "none")
            ELSE Ret(c.k, <<>>, "AssertionError"))

\* Container.validate: res is what it logs, "Valid" or "Invalid"; only an
\* AssertionError is caught.
validate(k, header_only) ==
    Bind(_validate(k, header_only), LAMBDA v :
        IF v.err = "none" THEN Ret(v.k, "Valid", "none")
        ELSE IF v.err = "AssertionError" THEN Ret(v.k, "Invalid", "none")
        ELSE Ret(v.k, "", v.err))

_initialize(k, force) ==
    IF ~(force \/ ~is_valid(k.header)) THEN Ret(k, <<>>, "AssertionError")
    ELSE Ret([k EXCEPT !.header = Header(MAGIC_BYTES, 0,
                                         SubSeq(sha256_digest(<<>>), 5, 32),
                                         to_bytes4(0))],
             <<>>, "none")

\* Container.initialize: res is what it logs, "Initialized" or "Failed".
initialize(k, force) ==
    Bind(_initialize(k, force), LAMBDA r :
        IF r.err = "none" THEN Ret(r.k, "Initialized", "none")
        ELSE Ret(r.k, "Failed", "none"))

(***************************************************************************)
(* Format strategies.  A strategy is [name, seed]; next_byte is the byte   *)
(* its generator yields at pull number i.  random_bytes(seed) is one draw  *)
(* of the random source.                                                   *)
(***************************************************************************)
fmt_zeros == [name |-> "fmt_zeros", seed |-> 0]

fmt_ones == [name |-> "fmt_ones", seed |-> 0]

random_bytes(seed) == [name |-> "random_bytes", seed |-> seed]

next_byte(strategy, i) ==
    IF strategy.name = "fmt_zeros" THEN 0
    ELSE IF strategy.name = "fmt_ones" THEN 255
    ELSE (89 * strategy.seed + 151 * i) % 256

(***************************************************************************)
(* Container.format                                                        *)
(***************************************************************************)
RECURSIVE format_for(_, _, _, _)
format_for(k, strategy, i, n) ==
    IF i >= n THEN Ret([k EXCEPT !.header.count = 0], <<>>, "none")
    ELSE Bind(Cursor_write(k.cursor, k.data, <<next_byte(strategy, i)>>), LAMBDA w :
            IF w.err # "none"
            THEN Ret([k EXCEPT !.cursor = w.cursor, !.data = w.array], <<>>, w.err)
            ELSE Bind([k EXCEPT !.cursor = w.cursor, !.data = w.array],
                      LAMBDA k1 : format_for(k1, strategy, i + 1, n)))

format(k, strategy) ==
    Bind(Container_seek(k, Some(0)), LAMBDA k0 :
        format_for(k0, strategy, 0, get_capacity(k0)))

\* Container.save: res is the sample array handed to the image encoder,
\* <<>> when the save raised before it.
save(k) ==
    Bind(calc_checksum(k), LAMBDA c :
        IF c.err # "none" THEN Ret(c.k, <<>>, c.err)
        ELSE Bind(write_header(c.k.cursor, [c.k.header EXCEPT !.checksum = c.res],
                               c.k.data),
                  LAMBDA w :
                    IF w.err # "none"
                    THEN Ret([c.k EXCEPT !.header.checksum = c.res, !.cursor = w.cursor,
                                         !.data = w.array], <<>>, w.err)
                    ELSE Ret([c.k EXCEPT !.header.checksum = c.res, !.cursor = w.cursor,
                                         !.data = w.array], w.array, "none")))

(***************************************************************************)
(* Inputs                                                                  *)
(***************************************************************************)
\* Bounds of the model.
MaxOps == 2

MaxLen == 4

MaxPos == 1

MinCapacity == 3

MaxSeeds == 1

CraftedLength == 1000

Widths == 1..8

\* Flat RGB images hold three samples per pixel: the least pixel count whose
\* array carries the header and MinCapacity payload bytes at width w.
Pixels(w) ==
    CHOOSE p \in 1..(8 * (14 + MinCapacity)) :
        /\ ((3 * p * w) \div 8) - 14 >= MinCapacity
        /\ \A q \in 1..(p - 1) : ((3 * q * w) \div 8) - 14 < MinCapacity

\* Carrier images: a black image, and an image of one pixel colour whose
\* low bits are mixed.  (The carriers decode to a length field below 2^31,
\* the largest integer TLC holds.)
Black(n) == [i \in 1..n |-> 0]

Noise(n) == [i \in 1..n |-> <<165, 82, 109>>[((i - 1) % 3) + 1]]

\* Bit j (0 = first, most significant first) of a bytes value.
BitOf(b, j) == (b[(j \div 8) + 1] \div 2^(7 - (j % 8))) % 2

\* The container file format: the low w bits of the samples, in index order,
\* carry the bits of b most significant first; every other bit is the
\* carrier's.
Embed(w, carrier, b) ==
    [i \in 1..Len(carrier) |->
        LET Slot(k) == LET j == (i - 1) * w + k
                           keep == (carrier[i] \div 2^(w - 1 - k)) % 2
                       IN  (IF j < 8 * Len(b) THEN BitOf(b, j) ELSE keep) * 2^(w - 1 - k)
            Sum[k \in 0..w] == IF k = w THEN 0 ELSE Slot(k) + Sum[k + 1]
        IN  (carrier[i] \div 2^w) * 2^w + Sum[0]]

HeaderBytes(h) == h.magic_bytes \o to_bytes4(h.count) \o h.checksum \o h.reserved

Payload(n) == [i \in 1..n |-> 96 + i]

Ones(n) == [i \in 1..n |-> 255]

Payloads == {Payload(n) : n \in 0..MaxLen} \cup {Ones(n) : n \in 1..MaxLen}

\* The images a container is opened on.
Images(w) ==
    LET n == 3 * Pixels(w)
        chk(b) == SubSeq(sha256_digest(b), 1, 4)
        zero == to_bytes4(0)
    IN  { Black(n),
          Noise(n),
          \* an empty container
          Embed(w, Noise(n), HeaderBytes(Header(MAGIC_BYTES, 0, chk(<<>>), zero))),
          \* a container holding two bytes
          Embed(w, Noise(n), HeaderBytes(Header(MAGIC_BYTES, 2, chk(Ones(2)), zero))
                             \o Ones(2)),
          \* a container whose payload was altered after it was saved
          Embed(w, Noise(n), HeaderBytes(Header(MAGIC_BYTES, 1, chk(Payload(1)), zero))
                             \o Ones(1)),
          \* a crafted header: valid magic, a length no array holds
          Embed(w, Black(n), HeaderBytes(Header(MAGIC_BYTES, CraftedLength,
                                                <<1, 2, 3, 4>>, <<0, 0, 0, 1>>))) }

(***************************************************************************)
(* State                                                                   *)
(***************************************************************************)
VARIABLES
    lsb,         \* Container.lsb
    data,        \* Container.data, the flat sample array
    header,      \* Container.header
    header_end,  \* Container.header_end
    cursor,      \* Container.cursor, the live cursor
    image,       \* the samples of the image file at Container.filename
    scope,       \* how the container is held: built directly, or by Container.open
    last,        \* the last call: its name, arguments, result and exception
    nops         \* calls made so far

vars == <<lsb, data, header, header_end, cursor, image, scope, last, nops>>

Self == [lsb |-> lsb, data |-> data, header |-> header,
         header_end |-> header_end, cursor |-> cursor]

Become(k) ==
    /\ data' = k.data
    /\ header' = k.header
    /\ cursor' = k.cursor
    /\ UNCHANGED <<lsb, header_end>>

Call(op, d, count, pos, flag, err, res) ==
    [op |-> op, data |-> d, count |-> count, pos |-> pos, flag |-> flag,
     err |-> err, res |-> res]

NoCall == Call("", <<>>, None, None, FALSE, "none", <<>>)

\* Container(filename, lsb) built directly, as the tests build it.
Direct == [kind |-> "direct", initialize |-> FALSE, force |-> FALSE, pc |-> "body"]

\* Container.open(filename, initialize, force) up to the construction.
Scoped(i, f) == [kind |-> "scoped", initialize |-> i, force |-> f, pc |-> "opened"]

InitWith(w, img, sc) ==
    \E c \in {Container(img, w)} :
        /\ c.err = "none"
        /\ lsb = w
        /\ data = c.k.data
        /\ header = c.k.header
        /\ header_end = c.k.header_end
        /\ cursor = c.k.cursor
        /\ image = img
        /\ scope = sc
        /\ last = NoCall
        /\ nops = 0

\* The widths a caller can hand to Cursor(lsb): nothing restricts the int.
AnyWidths == (-1)..9

\* Cursor.__init__ stores lsb and computes the two masks; the only thing
\* that can raise is the shift get_mask(8 - lsb) << lsb, a ValueError
\* (negative shift count) when lsb < 0.
Cursor_init(w) == IF w < 0 THEN "ValueError" ELSE "none"

\* A Cursor built on its own, as TestCursor builds it; pc is "failed" when
\* the constructor raised and there is no object.
Alone(w) ==
    [kind |-> "cursor", initialize |-> FALSE, force |-> FALSE,
     pc |-> IF Cursor_init(w) = "none" THEN "cursor" ELSE "failed"]

InitCursor(w) ==
    /\ lsb = w
    /\ data = <<>>
    /\ header = Header(<<>>, 0, <<>>, <<>>)
    /\ header_end = 0
    /\ cursor = Cursor(w)
    /\ image = <<>>
    /\ scope = Alone(w)
    /\ last = Call("Cursor", <<>>, Some(w), None, FALSE, Cursor_init(w), <<>>)
    /\ nops = 0

\* Container.open builds Container(filename): the default width, 2.
Init ==
    \/ \E w \in Widths : \E img \in Images(w) : InitWith(w, img, Direct)
    \/ \E img \in Images(2) : \E i, f \in BOOLEAN :
           /\ (f => i)
           /\ InitWith(2, img, Scoped(i, f))
    \/ \E w \in AnyWidths : InitCursor(w)

(***************************************************************************)
(* Operations                                                              *)
(***************************************************************************)
InBody == scope.pc = "body" /\ nops < MaxOps

Step == nops' = nops + 1 /\ UNCHANGED <<image, scope>>

Seek(pos) ==
    /\ InBody
    /\ Become(Container_seek(Self, pos))
    /\ last' = Call("seek", <<>>, None, pos, FALSE, "none",
                    _seek(cursor, IF pos = None THEN None
                                  ELSE Some(pos[1] + header_end)))
    /\ Step

Read(count) ==
    /\ InBody
    /\ \E r \in {Container_read(Self, count)} :
           /\ Become(r.k)
           /\ last' = Call("read", <<>>, count, None, FALSE, r.err, r.res)
    /\ Step

ReadFrom(count, pos) ==
    /\ InBody
    /\ \E r \in {read_from(Self, count, pos)} :
           /\ Become(r.k)
           /\ last' = Call("read_from", <<>>, Some(count), Some(pos), FALSE, r.err, r.res)
    /\ Step

Write(d) ==
    /\ InBody
    /\ \E r \in {Container_write(Self, d)} :
           /\ Become(r.k)
           /\ last' = Call("write", d, None, None, FALSE, r.err, <<>>)
    /\ Step

WriteFrom(d, pos) ==
    /\ InBody
    /\ \E r \in {write_from(Self, d, pos)} :
           /\ Become(r.k)
           /\ last' = Call("write_from", d, None, Some(pos), FALSE, r.err, <<>>)
    /\ Step

Validate(header_only) ==
    /\ InBody
    /\ \E r \in {validate(Self, header_only)} :
           /\ Become(r.k)
           /\ last' = Call("validate", <<>>, None, None, header_only, r.err, r.res)
    /\ Step

Initialize(force) ==
    /\ InBody
    /\ \E r \in {initialize(Self, force)} :
           /\ Become(r.k)
           /\ last' = Call("initialize", <<>>, None, None, force, r.err, r.res)
    /\ Step

Format(strategy) ==
    /\ InBody
    /\ \E r \in {format(Self, strategy)} :
           /\ Become(r.k)
           /\ last' = Call("format", <<>>, None, None, FALSE, r.err, strategy)
    /\ Step

\* Container.save(): the encoder writes the array to the file when the
\* checksum and the header were written.
Save ==
    /\ InBody
    /\ \E r \in {save(Self)} :
           /\ Become(r.k)
           /\ image' = IF r.err = "none" THEN r.res ELSE image
           /\ last' = Call("save", <<>>, None, None, FALSE, r.err, <<>>)
    /\ nops' = nops + 1
    /\ UNCHANGED scope

\* Container.open, before the yield: initialize(force) when asked.
Enter ==
    /\ scope.pc = "opened"
    /\ IF scope.initialize
       THEN \E r \in {initialize(Self, scope.force)} :
                /\ Become(r.k)
                /\ last' = Call("initialize", <<>>, None, None, scope.force, r.err, r.res)
       ELSE UNCHANGED <<lsb, data, header, header_end, cursor, last>>
    /\ scope' = [scope EXCEPT !.pc = "body"]
    /\ UNCHANGED <<image, nops>>

\* Container.open, after the yield: the body returned.
Release ==
    /\ scope.kind = "scoped"
    /\ scope.pc = "body"
    /\ IF "write" \in cursor.operations \/ scope.initialize
       THEN \E r \in {save(Self)} :
                /\ Become(r.k)
                /\ image' = IF r.err = "none" THEN r.res ELSE image
                /\ last' = Call("release", <<>>, None, None, TRUE, r.err, <<>>)
       ELSE /\ UNCHANGED <<lsb, data, header, header_end, cursor, image>>
            /\ last' = Call("release", <<>>, None, None, FALSE, "none", <<>>)
    /\ scope' = [scope EXCEPT !.pc = "released"]
    /\ UNCHANGED nops

\* An exception of the body leaves the with block: the generator is resumed
\* by throw() at the yield and nothing after the yield runs.
Propagate ==
    /\ scope.kind = "scoped"
    /\ scope.pc = "body"
    /\ last.err # "none"
    /\ scope' = [scope EXCEPT !.pc = "raised"]
    /\ UNCHANGED <<lsb, data, header, header_end, cursor, image, last, nops>>

\* Cursor.seek on a cursor built on its own.  With lsb = 0 both the index
\* (pos * 8) // lsb and the bit count (pos * 8) % lsb divide by zero.
CursorSeek(pos) ==
    /\ scope.pc = "cursor"
    /\ nops < MaxOps
    /\ IF lsb = 0
       THEN /\ last' = Call("Cursor.seek", <<>>, None, pos, FALSE, "ZeroDivisionError", <<>>)
            /\ UNCHANGED cursor
       ELSE /\ cursor' = Cursor_seek(cursor, pos)
            /\ last' = Call("Cursor.seek", <<>>, None, pos, FALSE, "none",
                            _seek(cursor, pos))
    /\ nops' = nops + 1
    /\ UNCHANGED <<lsb, data, header, header_end, image, scope>>

Positions == 0..MaxPos

Counts == 0..MaxLen

Next ==
    \/ \E pos \in {None} \cup {Some(p) : p \in Positions} : Seek(pos)
    \/ \E count \in {None} \cup {Some(n) : n \in Counts} : Read(count)
    \/ \E count \in Counts, pos \in Positions : ReadFrom(count, pos)
    \/ \E d \in Payloads : Write(d)
    \/ \E d \in Payloads, pos \in Positions : WriteFrom(d, pos)
    \/ \E header_only \in BOOLEAN : Validate(header_only)
    \/ \E force \in BOOLEAN : Initialize(force)
    \/ Format(fmt_zeros)
    \/ Format(fmt_ones)
    \/ \E seed \in 1..MaxSeeds : Format(random_bytes(seed))
    \/ Save
    \/ Enter
    \/ Release
    \/ Propagate
    \/ \E pos \in {None} \cup {Some(p) : p \in Positions} : CursorSeek(pos)

Spec == Init /\ [][Next]_vars

(***************************************************************************)
(* toolbox.net.ipv4: is_valid and Address.parse on strings.  A string is a *)
(* sequence of one-character strings.  The parsed integer can pass 2^32,   *)
(* so it is carried as <<v \div 2^24, v % 2^24>>.                          *)
(***************************************************************************)
Digits == <<"0", "1", "2", "3", "4", "5", "6", "7", "8", "9">>

IsDigit(ch) == \E i \in 1..Len(Digits) : Digits[i] = ch

\* int(str) on a string of decimal digits.
RECURSIVE int(_)
int(str) ==
    IF str = <<>> THEN 0
    ELSE 10 * int(SubSeq(str, 1, Len(str) - 1))
         + (CHOOSE v \in 0..9 : Digits[v + 1] = str[Len(str)])

\* The pieces of str between its dots.
RECURSIVE Fields(_, _, _)
Fields(str, i, cur) ==
    IF i > Len(str) THEN <<cur>>
    ELSE IF str[i] = "." THEN <<cur>> \o Fields(str, i + 1, <<>>)
    ELSE Fields(str, i + 1, Append(cur, str[i]))

\* re.match(r'^(\d{1,3})\.(\d{1,3})\.(\d{1,3})\.(\d{1,3})$', addr): the four
\* groups, or None.  $ matches at the end and before a final newline.
re_match(addr) ==
    LET body == IF addr # <<>> /\ addr[Len(addr)] = "\n"
                THEN SubSeq(addr, 1, Len(addr) - 1) ELSE addr
        groups == Fields(body, 1, <<>>)
    IN  IF /\ Len(groups) = 4
           /\ \A i \in 1..4 : /\ Len(groups[i]) \in 1..3
                               /\ \A j \in 1..Len(groups[i]) : IsDigit(groups[i][j])
        THEN Some(groups)
        ELSE None

\* np.uint32(v) on a Python int: a value below 2^32 converts; a larger one
\* wraps or raises OverflowError, depending on the numpy installed.
np_uint32(hi, lo) ==
    IF hi < 256 THEN {[err |-> "none", res |-> <<hi, lo>>]}
    ELSE {[err |-> "none", res |-> <<hi % 256, lo>>],
          [err |-> "OverflowError", res |-> <<>>]}

\* Address.parse(addr) for a str: the outcomes it can have.
Address_parse(addr) ==
    IF re_match(addr) = None
    THEN {[err |-> "ValueError", res |-> <<>>]}
    ELSE LET groups == re_match(addr)[1]
             low == BitOr(BitOr(int(groups[2]) * 2^16, int(groups[3]) * 2^8),
                          int(groups[4]))
         IN  np_uint32(BitOr(int(groups[1]), low \div 2^24), low % 2^24)

\* is_valid(addr): True when parse returns, False on ValueError; any other
\* exception leaves the function, which then returns nothing (None).
ipv4_is_valid(addr) ==
    {IF o.err = "none" THEN [err |-> "none", res |-> Some(TRUE)]
     ELSE IF o.err = "ValueError" THEN [err |-> "none", res |-> Some(FALSE)]
     ELSE [err |-> o.err, res |-> None] : o \in Address_parse(addr)}

MinFields == 3

MaxFields == 5

AddressFields ==
    {<<"0">>, <<"2", "5", "5">>, <<"2", "5", "6">>, <<"-", "1">>,
     <<"1", "0", "0", "0">>, <<"1", "\n">>}

RECURSIVE Join(_)
Join(fs) ==
    IF Len(fs) = 1 THEN fs[1]
    ELSE fs[1] \o <<".">> \o Join(Tail(fs))

AddressStrings ==
    {Join(fs) : fs \in UNION {[1..n -> AddressFields] : n \in MinFields..MaxFields}}

(***************************************************************************)
(* Single calls.  The helpers of toolbox.binary and the cursor's           *)
(* generators are functions of their arguments: a call is drawn in the     *)
(* initial state (err is "pending") and one step returns from it.          *)
(***************************************************************************)
MaxSeek == 3

SeekPositions == 0..MaxSeek

\* Arguments handed to get_mask and, as the shift, to split.
BitCounts == (-1)..9

Bytes == 0..255

\* np.uint16(0b1010101010101010).tobytes()
TestPattern == <<170, 170>>

Called(op, d, count, pos) == Call(op, d, count, pos, FALSE, "pending", <<>>)

\* The calls of the helpers, each with the width of the cursor it is made
\* on (the default, 3, where no cursor is involved).
UnitCalls ==
    {<<3, Called("get_mask", <<>>, Some(n), None)>> : n \in BitCounts}
    \cup {<<3, Called("split", <<>>, Some(n), Some(sh))>> : n \in Bytes, sh \in BitCounts}
    \cup {<<w, Called("iter_bits", d, None, Some(sh))>> :
              w \in Widths, d \in Payloads \cup {TestPattern}, sh \in 0..8}
    \cup {<<3, Called("is_valid", addr, None, None)>> : addr \in AddressStrings}

InitCall(w, call) ==
    /\ lsb = w
    /\ data = <<>>
    /\ header = Header(<<>>, 0, <<>>, <<>>)
    /\ header_end = 0
    /\ cursor = Cursor(w)
    /\ image = <<>>
    /\ scope = [kind |-> "call", initialize |-> FALSE, force |-> FALSE, pc |-> "called"]
    /\ last = call
    /\ nops = 0

Return(res, err) ==
    /\ scope.pc = "called"
    /\ last' = [last EXCEPT !.res = res, !.err = err]
    /\ scope' = [scope EXCEPT !.pc = "returned"]
    /\ UNCHANGED <<lsb, data, header, header_end, cursor, image, nops>>

GetMask ==
    /\ last.op = "get_mask"
    /\ Return(get_mask(last.count[1]), "none")

Split ==
    /\ last.op = "split"
    /\ Return(split(last.count[1], last.pos[1]), "none")

\* list(cursor.iter_bits(data, shift)).  With no data the loop never runs
\* and the shift is never reduced: past the width, the final q << offset has
\* a negative shift count and raises ValueError.
IterBits ==
    /\ last.op = "iter_bits"
    /\ IF last.data = <<>> /\ last.pos[1] > lsb
       THEN Return(<<>>, "ValueError")
       ELSE Return(iter_bits(cursor, last.data, last.pos[1]), "none")

\* Container.get_capacity() on a container just built.
GetCapacity ==
    /\ scope.kind = "direct"
    /\ last.op = ""
    /\ last' = Call("get_capacity", <<>>, None, None, FALSE, "none", get_capacity(Self))
    /\ UNCHANGED <<lsb, data, header, header_end, cursor, image, scope, nops>>

IsValid ==
    /\ last.op = "is_valid"
    /\ \E o \in ipv4_is_valid(last.data) : Return(o.res, o.err)

InitUnit ==
    \/ \E w \in AnyWidths : InitCursor(w)
    \/ \E u \in UnitCalls : InitCall(u[1], u[2])
    \/ \E w \in Widths : \E img \in Images(w) : InitWith(w, img, Direct)

NextUnit ==
    \/ \E pos \in {None} \cup {Some(p) : p \in SeekPositions} : CursorSeek(pos)
    \/ GetMask
    \/ Split
    \/ IterBits
    \/ GetCapacity
    \/ IsValid

SpecUnit == InitUnit /\ [][NextUnit]_vars

(***************************************************************************)
(* Properties                                                              *)
(***************************************************************************)
\* The call this step makes, for the action properties below.
Calls(op) == nops' = nops + 1 /\ last'.op = op

\* Bit j of the logical bitstream of an array at width w: the low w bits of
\* the samples in index order, most significant first.
LogicalBit(array, w, j) == (array[(j \div w) + 1] \div 2^(w - 1 - (j % w))) % 2

\* The payload offset at which the last write or write_from put its data.
WrittenAt ==
    IF last.op = "write_from" THEN last.pos[1]
    ELSE cursor.pos - Len(last.data) - header_end

\* C1: round trip.  After data D with len(D) <= capacity() was written through
\* the container at payload offset p (write at the current offset, or
\* write_from(D, p)), read_from(len(D), p) returns exactly D.  Stated for the
\* reads that the recorded length admits in full, p + len(D) <= header.length.
C1_RoundTrip ==
    (/\ last.op \in {"write", "write_from"}
     /\ last.err = "none"
     /\ Len(last.data) <= get_capacity(Self)
     /\ WrittenAt + Len(last.data) <= header.count)
    => \E r \in {read_from(Self, Len(last.data), WrittenAt)} :
           r.err = "none" /\ r.res = last.data

\* C2: immediately after a successful Container.write, a full validate()
\* reports valid (the recomputed checksum equals the stored one).
C2_ValidAfterWrite ==
    (last.op = "write" /\ last.err = "none")
    => \E r \in {validate(Self, FALSE)} : r.err = "none" /\ r.res = "Valid"

\* C3: read_from and write_from restore the cursor: when the call returns,
\* the live cursor's logical offset and sample index are those before it.
C3_CursorRestored ==
    [][(/\ Calls("read_from") \/ Calls("write_from")
        /\ last'.err = "none")
       => (cursor'.pos = cursor.pos /\ cursor'.idx = cursor.idx)]_vars

\* C4: initialize(force=false) on a container whose magic is valid fails and
\* changes neither the header nor the samples, and the scoped
\* open(initialize=True, force=False) of such a container persists nothing
\* different from what it decoded; on an invalid magic initialize succeeds.
\* ("Fails" is read here as: raises, or reports the failure.)
C4_InitializeGuard ==
    [][/\ (Calls("initialize") /\ ~last'.flag /\ is_valid(header))
          => (/\ last'.err # "none" \/ last'.res = "Failed"
              /\ header' = header
              /\ data' = data)
       /\ (Calls("initialize") /\ ~is_valid(header))
          => (last'.err = "none" /\ last'.res = "Initialized")
       /\ (/\ scope.pc = "body" /\ scope'.pc = "released"
           /\ scope.initialize /\ ~scope.force
           /\ nops = 0 /\ last.res = "Failed")
          => image' = image]_vars

\* C5: after a successful initialize the header is {the magic, length 0, the
\* 4-byte checksum the container computes over an empty payload, 4 zero
\* bytes}.
C5_InitializedHeader ==
    (last.op = "initialize" /\ last.res = "Initialized")
    => /\ Len(header.checksum) = 4
       /\ header = Header(MAGIC_BYTES, 0, calc_checksum(Self).res, to_bytes4(0))

\* C6: header codec round trip.  Once write_header has written a header with
\* the valid magic, a 4-byte checksum and a 4-byte reserved field (save writes
\* the container's), read_header at the same width on the same array returns
\* the same four fields, a valid header, and header end 14.
C6_HeaderRoundTrip ==
    (last.op = "save" /\ last.err = "none" /\ Len(header.reserved) = 4)
    => \E h \in {read_header(lsb, data)} :
           /\ h.err = "none"
           /\ h.header = header
           /\ is_valid(h.header)
           /\ h.header_end = 14

\* C7: persistence round trip.  When a valid container received write(D) at
\* payload offset 0 and is then saved, the saved samples decode at the same
\* width to a valid header with length len(D) and a matching checksum, and
\* reading the payload returns exactly D.
C7_PersistenceRoundTrip ==
    [][(/\ last.op = "write" /\ last.err = "none" /\ WrittenAt = 0
        /\ Calls("save") /\ last'.err = "none")
       => \E c \in {Container(image', lsb)} :
              /\ c.err = "none"
              /\ is_valid(c.k.header)
              /\ c.k.header.count = Len(last.data)
              /\ validate(c.k, FALSE).res = "Valid"
              /\ Container_read(c.k, None).res = last.data]_vars

\* C8: a write of len bytes at logical offset p changes only the bits
\* [8p, 8(p+len)) of the logical bitstream: every other bit of the low w bits
\* of every sample, and every bit above them, keeps its value.
C8_WriteFrame ==
    [][(Calls("write") /\ last'.err = "none")
       => /\ \A i \in 1..Len(data) : data'[i] \div 2^lsb = data[i] \div 2^lsb
          /\ \A j \in 0..(Len(data) * lsb - 1) :
                (j < 8 * cursor.pos \/ j >= 8 * (cursor.pos + Len(last'.data)))
                => LogicalBit(data', lsb, j) = LogicalBit(data, lsb, j)]_vars

\* C9: after format(strategy) the payload byte at every offset i in
\* [0, capacity()), read back through a cursor, is the i-th byte pulled from
\* the strategy.
C9_FormatFills ==
    (last.op = "format" /\ last.err = "none")
    => \A i \in 0..(get_capacity(Self) - 1) :
           \E r \in {Cursor_read(Cursor_seek(Cursor(lsb), Some(header_end + i)), data, 1)} :
               r.err = "none" /\ r.res = <<next_byte(last.res, i)>>

\* C10: read(count) on a valid container returns exactly min(count, max_count)
\* bytes, never fewer than 0, where max_count = header.length minus the
\* payload-relative offset; read() returns the max_count remaining bytes; it
\* never fails; the cursor advances by the number of bytes returned.  Stated
\* for a header whose length the array holds, header.length <= capacity().
C10_ReadClamped ==
    [][(Calls("read") /\ is_valid(header) /\ header.count <= get_capacity(Self))
       => LET max_count == header.count + header_end - cursor.pos
              n == IF last'.count = None THEN max_count
                   ELSE Min(last'.count[1], max_count)
          IN  /\ last'.err = "none"
              /\ Len(last'.res) = Max(0, n)
              /\ cursor'.pos = cursor.pos + Len(last'.res)]_vars

\* The scoped open ran its save on the way out (the code after the yield
\* called Container.save).
SavedAtExit == scope.pc = "released" /\ last.flag

\* C11: on every exit from a scoped open (the body completed, or raised), the
\* container is saved if and only if a write operation was recorded on the
\* live cursor or initialize was requested.
C11_SavedOnEveryExit ==
    (scope.kind = "scoped" /\ scope.pc \in {"released", "raised"})
    => (SavedAtExit <=> ("write" \in cursor.operations \/ scope.initialize))

\* C12: validate() is non-mutating: whichever the mode and the outcome, the
\* header fields, the sample array and the live cursor's logical offset are
\* after the call what they were before it.
C12_ValidateFrame ==
    [][(Calls("validate") /\ last'.err = "none")
       => (header' = header /\ data' = data /\ cursor'.pos = cursor.pos)]_vars

\* C13: validate() never raises past the call: from every reachable state it
\* returns normally and reports valid or invalid.
C13_ValidateReturns ==
    [][Calls("validate")
       => (last'.err = "none" /\ last'.res \in {"Valid", "Invalid"})]_vars

\* C14: in every reachable state of an open container whose header is valid,
\* header.length <= capacity().
C14_LengthWithinCapacity ==
    (scope.kind \in {"direct", "scoped"} /\ is_valid(header))
    => header.count <= get_capacity(Self)

\* C15: a bit width outside [1, 8] is rejected at construction: the
\* constructor fails, and no cursor with such a width exists.
C15_WidthRejected ==
    /\ (last.op = "Cursor" /\ last.count[1] \notin 1..8) => last.err # "none"
    /\ scope.pc # "failed" => cursor.lsb \in 1..8

\* C16: read, write, read_from and write_from on a container whose header is
\* invalid fail, and the sample array, the header fields and the live
\* cursor's logical offset are after the failure what they were before it.
C16_PreconditionFrame ==
    [][(/\ \/ Calls("read") \/ Calls("write")
           \/ Calls("read_from") \/ Calls("write_from")
        /\ ~is_valid(header))
       => (/\ last'.err # "none"
           /\ data' = data
           /\ header' = header
           /\ cursor'.pos = cursor.pos)]_vars

\* C17: write(data) sets header.length to len(data), whatever the previous
\* length and the cursor offset, and the cursor's logical offset advances by
\* len(data); write_from sets the length the same way.
C17_WriteSetsLength ==
    [][/\ (Calls("write") /\ last'.err = "none")
          => (/\ header'.count = Len(last'.data)
              /\ cursor'.pos = cursor.pos + Len(last'.data))
       /\ (Calls("write_from") /\ last'.err = "none")
          => header'.count = Len(last'.data)]_vars

\* C17 witness: three bytes were written at payload offset 1 and the length
\* is 3.
C17_Witness ==
    /\ last.op = "write" /\ last.err = "none"
    /\ Len(last.data) = 3
    /\ cursor.pos = header_end + 4
    /\ header.count = 3

\* C18: after format(strategy) from any state header.length = 0, is_valid()
\* is what it was before, and on a valid container a read() with the default
\* count that follows immediately returns an empty result.
C18_FormatResetsLength ==
    [][(Calls("format") /\ last'.err = "none")
       => /\ header'.count = 0
          /\ is_valid(header') = is_valid(header)
          /\ is_valid(header')
             => \E r \in {Container_read(Self', None)} :
                    r.err = "none" /\ r.res = <<>>]_vars

\* C19: every step of every container operation leaves the high 8-w bits of
\* every sample as they were, in the array and in the saved file, so they
\* stay those of the array decoded at open.
C19_HighBitsKept ==
    [][/\ Len(data') = Len(data) /\ Len(image') = Len(image)
       /\ \A i \in 1..Len(data) :
              /\ data'[i] \div 2^lsb = data[i] \div 2^lsb
              /\ image'[i] \div 2^lsb = image[i] \div 2^lsb]_vars

\* C19 witness: at width 3 a write changed the low bits of some samples.
C19_Witness ==
    /\ scope.kind = "direct" /\ lsb = 3
    /\ last.op = "write" /\ last.err = "none" /\ Len(last.data) > 0
    /\ data # image

\* The samples of the header prefix at width w: ceil(14 * 8 / w).
HeaderSamples(w) == (14 * 8 + w - 1) \div w

\* This step saves the container: Container.save() is called, or the
\* scoped open saves on release.
Saves ==
    \/ Calls("save")
    \/ scope.pc = "body" /\ scope'.pc = "released" /\ last'.flag

\* C20: when initialize() is all that was called since the open, a save
\* changes no sample at index >= ceil(14*8/w): there the array and the saved
\* file are the image decoded at open.
C20_InitializeSaveFrame ==
    [][(last.op = "initialize" /\ nops <= 1 /\ Saves)
       => \A i \in 1..Len(image) :
              (i - 1 >= HeaderSamples(lsb))
              => (data'[i] = image[i] /\ image'[i] = image[i])]_vars

\* C20 witness: an all-black image was initialized and saved: the header is
\* the initialized one, the file holds it, and every sample after the header
\* prefix is still 0.
C20_Witness ==
    /\ nops = 2 /\ last.op = "save" /\ last.err = "none"
    /\ header = Header(MAGIC_BYTES, 0, SubSeq(EMPTY_DIGEST, 1, 4), to_bytes4(0))
    /\ image = data
    /\ \E i \in 1..HeaderSamples(lsb) : data[i] # 0
    /\ \A i \in 1..Len(data) : (i - 1 >= HeaderSamples(lsb)) => data[i] = 0

\* C21: for every width w in 1..8, seek(p) returns (p, floor(8p/w),
\* w - (8p mod w)) and makes it the current position, with the bits left in
\* 1..w; seek(None) returns the current position and changes nothing.  At
\* width 3: seek(0) = (0,0,3), seek(1) = (1,2,1), seek(2) = (2,5,2).
C21_SeekFormula ==
    [][(Calls("Cursor.seek") /\ lsb \in 1..8)
       => IF last'.pos = None
          THEN /\ last'.err = "none"
               /\ last'.res = <<cursor.pos, cursor.idx, lsb - ((8 * cursor.pos) % lsb)>>
               /\ cursor' = cursor
          ELSE LET p == last'.pos[1]
               IN  /\ last'.err = "none"
                   /\ last'.res = <<p, (8 * p) \div lsb, lsb - ((8 * p) % lsb)>>
                   /\ last'.res[3] \in 1..lsb
                   /\ cursor'.pos = p
                   /\ cursor'.idx = (8 * p) \div lsb
                   /\ (lsb = 3 /\ p = 0) => last'.res = <<0, 0, 3>>
                   /\ (lsb = 3 /\ p = 1) => last'.res = <<1, 2, 1>>
                   /\ (lsb = 3 /\ p = 2) => last'.res = <<2, 5, 2>>]_vars

\* C21 witness: the cursor of width 3 returned (2, 5, 2) from seek(2).
C21_Witness ==
    /\ scope.kind = "cursor" /\ lsb = 3
    /\ last.op = "Cursor.seek" /\ last.pos = Some(2)
    /\ last.res = <<2, 5, 2>>
    /\ cursor.pos = 2 /\ cursor.idx = 5

\* C22: for every width w in 1..8, data and initial shift s in [0, w),
\* iter_bits(data, s) yields ceil((s + 8 len(data)) / w) tuples; laid end to
\* end as w-bit values, bit s onward of the values are the bits of data, most
\* significant first, and the bits after them (the padding of a trailing
\* chunk) are 0.  For w = 3, s = 0 and the bytes 0xAA 0xAA it yields
\* (5,0), (2,0), (5,0), (2,0), (5,0), (0,3).
C22_IterBitsChunks ==
    (/\ last.op = "iter_bits" /\ scope.pc = "returned"
     /\ lsb \in 1..8 /\ last.pos[1] < lsb)
    => LET out == last.res
           sh == last.pos[1]
           total == sh + 8 * Len(last.data)
       IN  /\ Len(out) = (total + lsb - 1) \div lsb
           /\ \A k \in 1..Len(out) :
                  /\ out[k][1] \in 0..(2^lsb - 1)
                  /\ \A j \in 0..(lsb - 1) :
                         LET t == (k - 1) * lsb + j
                             bit == (out[k][1] \div 2^(lsb - 1 - j)) % 2
                         IN  /\ (t >= sh /\ t < total) => bit = BitOf(last.data, t - sh)
                             /\ t >= total => bit = 0
           /\ (lsb = 3 /\ sh = 0 /\ last.data = TestPattern)
              => out = <<<<5, 0>>, <<2, 0>>, <<5, 0>>, <<2, 0>>, <<5, 0>>, <<0, 3>>>>

\* C22 witness: at width 3 and shift 1, three bytes were cut into nine
\* tuples, the last one padded.
C22_Witness ==
    /\ last.op = "iter_bits" /\ scope.pc = "returned"
    /\ lsb = 3 /\ last.pos = Some(1)
    /\ Len(last.data) = 3 /\ Len(last.res) = 9

\* C23: capacity() = floor(len(array) * w / 8) - 14 for every width and
\* every array a container is built on: the header ends at logical byte 14.
C23_CapacityFormula ==
    scope.kind = "direct"
    => /\ header_end = 14
       /\ last.op = "get_capacity"
          => last.res = ((Len(data) * lsb) \div 8) - 14

\* C23 witness: capacity() returned 4 for 48 samples at width 3.
C23_Witness ==
    /\ last.op = "get_capacity"
    /\ lsb = 3 /\ Len(data) = 48
    /\ last.res = 4

\* C24: get_mask(n) = 2^n - 1 for n in 0..8; split(n, s) is
\* (n >> s', n & mask(s')) with s' = s clamped to [0, 8], so that for n in
\* 0..255 and s in 0..8 (hi << s) | lo = n; split(0xFF, 4) = (0xF, 0xF),
\* split(0xFF, 0) = (0xFF, 0), split(0xFF, 8) = (0, 0xFF) and
\* split(0xFF, -1) = (0xFF, 0).
C24_BitHelpers ==
    /\ (last.op = "get_mask" /\ scope.pc = "returned" /\ last.count[1] \in 0..8)
       => last.res = 2^last.count[1] - 1
    /\ (last.op = "split" /\ scope.pc = "returned")
       => LET n == last.count[1]
              sh == last.pos[1]
              clamped == IF sh < 0 THEN 0 ELSE IF sh > 8 THEN 8 ELSE sh
          IN  /\ last.res = <<n \div 2^clamped, n % 2^clamped>>
              /\ sh \in 0..8 => last.res[1] * 2^sh + last.res[2] = n
              /\ (n = 255 /\ sh = 4) => last.res = <<15, 15>>
              /\ (n = 255 /\ sh = 0) => last.res = <<255, 0>>
              /\ (n = 255 /\ sh = 8) => last.res = <<0, 255>>
              /\ (n = 255 /\ sh = -1) => last.res = <<255, 0>>

\* C24 witness: split(0xFF, 8) returned (0, 0xFF).
C24_Witness ==
    /\ last.op = "split" /\ scope.pc = "returned"
    /\ last.count = Some(255) /\ last.pos = Some(8)
    /\ last.res = <<0, 255>>

\* A string of four dot-separated decimal octets, each in 0..255.
FourOctets(str) ==
    LET fs == Fields(str, 1, <<>>)
    IN  /\ Len(fs) = 4
        /\ \A i \in 1..4 : /\ fs[i] # <<>>
                           /\ \A j \in 1..Len(fs[i]) : IsDigit(fs[i][j])
                           /\ int(fs[i]) <= 255

\* C25: is_valid(s) returns true exactly when s is four dot-separated
\* decimal octets each in 0..255, and false, without raising, for every
\* other string.  Stated for the calls that return, on strings of digits,
\* dots and minus signs: what is_valid returned is whether s is four such
\* octets.
C25_IsValidExact ==
    (/\ last.op = "is_valid" /\ scope.pc = "returned" /\ last.err = "none"
     /\ \A j \in 1..Len(last.data) : last.data[j] # "\n")
    => last.res = Some(FourOctets(last.data))

\* C26: for every width w in 1..8, a read whose bytes lie within payload
\* offsets [0, capacity()), a read ending at the last addressable byte
\* included, touches only sample indices below len(array) and completes
\* without an out-of-range failure.  The read starts at payload offset p0
\* and returns n >= 1 bytes, after the clamp to the stored length, which
\* is itself within the capacity.
C26_ReadStaysInArray ==
    [][LET p0 == IF last'.op = "read" THEN cursor.pos - header_end ELSE last'.pos[1]
           n  == IF last'.count = None THEN header.count - p0
                 ELSE Min(last'.count[1], header.count - p0)
       IN  (/\ Calls("read") \/ Calls("read_from")
            /\ lsb \in 1..8 /\ is_valid(header)
            /\ header.count <= get_capacity(Self)
            /\ p0 >= 0 /\ n >= 1 /\ p0 + n <= get_capacity(Self))
           => last'.err # "IndexError"]_vars

\* C27: in every state between cursor operations, whether the calls made so
\* far returned or failed, the cursor's sample index is floor(8 * pos / w)
\* for its logical offset pos.  Stated as the step that keeps it: a call made
\* where the index follows the offset, on a container whose stored length is
\* within the capacity or on a cursor of its own, leaves the index following
\* the offset.
C27_IndexFollowsOffset ==
    [][(/\ lsb \in 1..8 /\ header.count <= get_capacity(Self)
        /\ cursor.idx = (8 * cursor.pos) \div lsb)
       => cursor'.idx = (8 * cursor'.pos) \div lsb]_vars

====
